---------------------------- MODULE Spec2Model ----------------------------
(***************************************************************************)
(* Opponent state inference engine of croverlay:                           *)
(*   - CardCycleTracker (src/src/croverlay/cycle_tracker.py)               *)
(*   - ElixirTracker    (src/src/croverlay/elixir_tracker.py)              *)
(*                                                                         *)
(* Representation.                                                         *)
(*   Card names are strings in the code.  A card name is modelled by its   *)
(*   rank in the lexicographic order of the names in play (1 is the        *)
(*   smallest name), so that "<" on ranks is "<" on the strings.           *)
(*   Optional values: None is the empty sequence, a present value v is     *)
(*   the one-element sequence <<v>>.                                       *)
(*   Timestamps of plays are integers (seconds).                           *)
(*   Elixir tracker: time is counted in tenths of a second and elixir in   *)
(*   1/ElixirUnit of one elixir, which makes delta_t / seconds_per_elixir  *)
(*   an exact integer for every configured rate.                           *)
(***************************************************************************)
EXTENDS Integers, Sequences, FiniteSets, TLC

VARIABLES
    \* CardCycleTracker
    discovered_cards,   \* set of card names
    iter_order,         \* the order in which Python iterates discovered_cards
    play_history,       \* sequence of CardPlay records
    \* ElixirTracker
    single_seconds_per_elixir,
    double_seconds_per_elixir,
    triple_seconds_per_elixir,
    max_elixir,
    current_elixir,
    last_update_timestamp,
    phase,
    \* ConfigLoader
    config_file,        \* what is at config_path: None, or the parsed JSON value
    loader,             \* None, or the _config of the constructed ConfigLoader
    heap,               \* the dict objects a caller can get hold of, by identity
    returned,           \* the objects get_evolution_cycles returned, in call order
    \* caller of the CardCycleTracker
    query_result,       \* what each query returned since the latest play
    \* outcome of the last call
    raised              \* None, or the exception that escaped the call

cycle_vars == <<discovered_cards, iter_order, play_history>>
config_vars == <<single_seconds_per_elixir, double_seconds_per_elixir,
                 triple_seconds_per_elixir, max_elixir>>
elixir_vars == <<single_seconds_per_elixir, double_seconds_per_elixir,
                 triple_seconds_per_elixir, max_elixir,
                 current_elixir, last_update_timestamp, phase>>
loader_vars == <<config_file, loader, heap, returned>>
vars_but_query_result == <<discovered_cards, iter_order, play_history,
                     single_seconds_per_elixir, double_seconds_per_elixir,
                     triple_seconds_per_elixir, max_elixir,
                     current_elixir, last_update_timestamp, phase,
                     config_file, loader, heap, returned, raised>>
vars == <<discovered_cards, iter_order, play_history,
          single_seconds_per_elixir, double_seconds_per_elixir,
          triple_seconds_per_elixir, max_elixir,
          current_elixir, last_update_timestamp, phase,
          config_file, loader, heap, returned, query_result, raised>>

-----------------------------------------------------------------------------
(* Bounds of the model *)

NumCards == 5       \* distinct card names the detector can report
MaxPlays == 5       \* plays recorded in one match
MaxTime == 1        \* play timestamps range over 0..MaxTime

NumEvolving == 1    \* of these names, how many have an evolved form
OpeningCards == 4   \* mid-match runs: cards of the opening, each played once
MaxLatePlays == 3   \* mid-match runs: plays recorded after the opening
MaxGap == 2         \* in-order runs: a play is 1..MaxGap later than the one before
MaxEarly == 1       \* any-time runs: timestamps range over -MaxEarly..MaxTime
MaxAnyPlays == 3    \* any-time runs: plays recorded in one match
MaxFlagPlays == 1   \* any-flag runs: plays recorded after the opening

Cards == 1..NumCards
Times == 0..MaxTime

\* timestamps of any sign
AnyTimes == (0 - MaxEarly)..MaxTime

\* mid-match runs know one name more
DeckCards == 1..(NumCards + 1)

DeckSize == 8       \* cards of a deck ("max 8" of the class docstring)
MaxOverDeck == 1    \* over-deck runs: distinct names beyond the deck size

\* over-deck runs: more names than a deck has cards
ManyCards == 1..(DeckSize + MaxOverDeck)

\* None as a card_name: what the detector reports for a card it cannot
\* name.  It is no string and has no place in the order of the names.
UnknownCard == 0

NumNamedCards == 4  \* unknown-card runs: named cards played next to the unknown one

\* the is_evolved flags the detector can report for a card
EvolvedFlags(card_name) == IF card_name <= NumEvolving THEN BOOLEAN ELSE {FALSE}

-----------------------------------------------------------------------------
(* Python built-ins used by the trackers *)

None == <<>>

\* float("-inf"): below every timestamp
NegInf == 0 - (MaxEarly + 1)

min(a, b) == IF a <= b THEN a ELSE b
max(a, b) == IF a >= b THEN a ELSE b

\* the only element of a one-element set
The(S) == CHOOSE x \in S : TRUE

\* the keys of the elements of s, in the order of s
keys_of(s, key) == SubSeq([i \in 1..Len(s) |-> key[s[i]]], 1, Len(s))

\* mutant: the sort runs descending (reverse=True)
places_of_descending(k) ==
    SubSeq([i \in 1..Len(k) |->
               1 + Cardinality({j \in 1..Len(k) : k[j] > k[i] \/ (k[j] = k[i] /\ j < i)})],
           1, Len(k))

\* where a stable ascending sort puts each element: behind every element
\* with a smaller key and behind the earlier elements with an equal key
places_of(k) ==
    SubSeq([i \in 1..Len(k) |->
               1 + Cardinality({j \in 1..Len(k) : k[j] < k[i] \/ (k[j] = k[i] /\ j < i)})],
           1, Len(k))

\* sorted(iterable, key=...): a stable sort, ascending by key
sorted(s, key) ==
    The({ SubSeq([p \in 1..Len(s) |-> s[CHOOSE i \in 1..Len(s) : place[i] = p]], 1, Len(s)) :
              place \in { places_of(k) : k \in {keys_of(s, key)} } })

\* mutant: max(...) in the place of min(...)
min_key_max(s, key) ==
    The({ s[CHOOSE i \in 1..Len(s) :
                /\ \A j \in 1..Len(s) : k[i] >= k[j]
                /\ \A j \in 1..(i - 1) : k[j] < k[i]] :
              k \in {keys_of(s, key)} })

\* min(iterable, key=...): the first element whose key is minimal
min_key(s, key) ==
    The({ s[CHOOSE i \in 1..Len(s) :
                /\ \A j \in 1..Len(s) : k[i] <= k[j]
                /\ \A j \in 1..(i - 1) : k[j] > k[i]] :
              k \in {keys_of(s, key)} })

\* s[:n]: the first n elements, or all of s when it is shorter
slice_to(s, n) == SubSeq(s, 1, min(n, Len(s)))

\* the natural order of the card names
name_key == [c \in DeckCards \cup ManyCards \cup {UnknownCard} |-> c]

\* the outcome of a query that raises TypeError (no card name is negative)
TypeError == <<-1>>

\* sorted(list) without a key compares the elements: '<' between None and a
\* str raises TypeError, and every element of a list of two or more takes
\* part in a comparison
sorted_names(s) ==
    IF Len(s) > 1 /\ \E i \in 1..Len(s) : s[i] = UnknownCard
    THEN TypeError
    ELSE sorted(s, name_key)

\* the elements of a sequence
Range(s) == {s[i] : i \in 1..Len(s)}

-----------------------------------------------------------------------------
(* CardCycleTracker *)

CardPlay(card_name, is_evolved, timestamp) ==
    [card_name |-> card_name, is_evolved |-> is_evolved, timestamp |-> timestamp]

CycleInit ==
    /\ discovered_cards = {}
    /\ iter_order = <<>>
    /\ play_history = <<>>

\* the queries of the tracker; no query was called since the latest play
Queries == {"get_discovered_deck", "get_inferred_hand", "get_inferred_next_card"}
NoAnswer == [query \in Queries |-> None]

\* set.add of a new element: the element takes some place in the iteration
\* order of the set.  The place depends on the hash of the string, which
\* varies from one run of the interpreter to the next.  Every order of the
\* set is reached by some sequence of places.
set_add(order, x, pos) ==
    SubSeq(order, 1, pos) \o <<x>> \o SubSeq(order, pos + 1, Len(order))

\* mutant: the history is assigned the new play, not appended to
record_play_overwrite(card_name, is_evolved, t) ==
    /\ play_history' = <<CardPlay(card_name, is_evolved, t)>>
    /\ IF card_name \notin discovered_cards
       THEN /\ discovered_cards' = discovered_cards \cup {card_name}
            /\ \E pos \in 0..Len(iter_order) :
                   iter_order' = set_add(iter_order, card_name, pos)
       ELSE UNCHANGED <<discovered_cards, iter_order>>

\* mutant: the discovered cards are kept in a list and appended to without
\* the membership test
record_play_list(card_name, is_evolved, t) ==
    /\ play_history' = Append(play_history, CardPlay(card_name, is_evolved, t))
    /\ discovered_cards' = discovered_cards \cup {card_name}
    /\ iter_order' = Append(iter_order, card_name)

\* mutant: the history is kept in the order of the timestamps
record_play_by_time(card_name, is_evolved, t) ==
    /\ play_history' =
           SelectSeq(play_history, LAMBDA play : play.timestamp <= t)
               \o <<CardPlay(card_name, is_evolved, t)>>
               \o SelectSeq(play_history, LAMBDA play : play.timestamp > t)
    /\ IF card_name \notin discovered_cards
       THEN /\ discovered_cards' = discovered_cards \cup {card_name}
            /\ \E pos \in 0..Len(iter_order) :
                   iter_order' = set_add(iter_order, card_name, pos)
       ELSE UNCHANGED <<discovered_cards, iter_order>>

\* mutant: the set takes no new card once it holds a deck
record_play_capped(card_name, is_evolved, t) ==
    /\ play_history' = Append(play_history, CardPlay(card_name, is_evolved, t))
    /\ IF card_name \notin discovered_cards /\ Cardinality(discovered_cards) < DeckSize
       THEN /\ discovered_cards' = discovered_cards \cup {card_name}
            /\ \E pos \in 0..Len(iter_order) :
                   iter_order' = set_add(iter_order, card_name, pos)
       ELSE UNCHANGED <<discovered_cards, iter_order>>

\* mutant: a negative timestamp is rejected (raise ValueError)
record_play_rejecting(card_name, is_evolved, t) ==
    /\ t >= 0
    /\ play_history' = Append(play_history, CardPlay(card_name, is_evolved, t))
    /\ IF card_name \notin discovered_cards
       THEN /\ discovered_cards' = discovered_cards \cup {card_name}
            /\ \E pos \in 0..Len(iter_order) :
                   iter_order' = set_add(iter_order, card_name, pos)
       ELSE UNCHANGED <<discovered_cards, iter_order>>

record_play(card_name, is_evolved, t) ==
    /\ play_history' = Append(play_history, CardPlay(card_name, is_evolved, t))
    /\ IF card_name \notin discovered_cards
       THEN /\ discovered_cards' = discovered_cards \cup {card_name}
            /\ \E pos \in 0..Len(iter_order) :
                   iter_order' = set_add(iter_order, card_name, pos)
       ELSE UNCHANGED <<discovered_cards, iter_order>>

\* list(self.discovered_cards)
list_discovered == iter_order

\* mutant: the list is returned as the set iterates, without sorted(...)
get_discovered_deck_unsorted == list_discovered

get_discovered_deck == sorted_names(list_discovered)

\* mutant: the largest timestamp of a card is kept
RECURSIVE last_play_time_of_max(_)
last_play_time_of_max(h) ==
    IF h = <<>> THEN <<>>
    ELSE LET play == h[Len(h)]
             before == last_play_time_of_max(SubSeq(h, 1, Len(h) - 1))
         IN  IF play.card_name \in DOMAIN before /\ before[play.card_name] > play.timestamp
             THEN before
             ELSE (play.card_name :> play.timestamp) @@ before

\* mutant: the first timestamp of a card is kept (setdefault)
RECURSIVE last_play_time_of_first(_)
last_play_time_of_first(h) ==
    IF h = <<>> THEN <<>>
    ELSE LET play == h[Len(h)]
         IN  last_play_time_of_first(SubSeq(h, 1, Len(h) - 1)) @@ (play.card_name :> play.timestamp)

\* the dict built by "for play in self.play_history:
\*                        last_play_time[play.card_name] = play.timestamp"
RECURSIVE last_play_time_of(_)
last_play_time_of(h) ==
    IF h = <<>> THEN <<>>
    ELSE LET play == h[Len(h)]
         IN  (play.card_name :> play.timestamp) @@ last_play_time_of(SubSeq(h, 1, Len(h) - 1))

\* mutant: the cards are ranked by name (key=lambda card: card)
recency_key_by_name(last_play_time) == [card \in discovered_cards |-> card]

\* lambda card: last_play_time.get(card, float("-inf")), over the discovered cards
recency_key(last_play_time) ==
    [card \in discovered_cards |->
        IF card \in DOMAIN last_play_time THEN last_play_time[card] ELSE NegInf]

\* mutant: the [:4] slice is missing
get_inferred_hand_unsliced ==
    IF play_history = <<>> THEN <<>>
    ELSE IF Cardinality(discovered_cards) < 4 THEN sorted_names(list_discovered)
    ELSE LET last_play_time == last_play_time_of(play_history)
         IN  sorted(list_discovered, recency_key(last_play_time))

\* mutant: the slice takes the last four ([-4:])
get_inferred_hand_latest ==
    IF play_history = <<>> THEN <<>>
    ELSE IF Cardinality(discovered_cards) < 4 THEN sorted_names(list_discovered)
    ELSE LET last_play_time == last_play_time_of(play_history)
             cards_by_recency == sorted(list_discovered, recency_key(last_play_time))
         IN  SubSeq(cards_by_recency, Len(cards_by_recency) - 3, Len(cards_by_recency))

\* mutant: the recency ranking starts at 3 discovered cards
get_inferred_hand_early ==
    IF play_history = <<>> THEN <<>>
    ELSE IF Cardinality(discovered_cards) < 3 THEN sorted_names(list_discovered)
    ELSE LET last_play_time == last_play_time_of(play_history)
             cards_by_recency == sorted(list_discovered, recency_key(last_play_time))
         IN  slice_to(cards_by_recency, 4)

\* mutant: plays of evolved cards are left out of the recency ranking
inferred_hand_unevolved(history) ==
    IF history = <<>> THEN <<>>
    ELSE IF Cardinality(discovered_cards) < 4 THEN sorted_names(list_discovered)
    ELSE LET last_play_time ==
                 last_play_time_of(SelectSeq(history, LAMBDA play : ~play.is_evolved))
             cards_by_recency == sorted(list_discovered, recency_key(last_play_time))
         IN  slice_to(cards_by_recency, 4)

\* the body of get_inferred_hand on a tracker whose play_history is history
inferred_hand_from(history) ==
    IF history = <<>> THEN <<>>
    ELSE IF Cardinality(discovered_cards) < 4 THEN sorted_names(list_discovered)
    ELSE LET last_play_time == last_play_time_of(history)
             cards_by_recency == sorted(list_discovered, recency_key(last_play_time))
         IN  slice_to(cards_by_recency, 4)

get_inferred_hand == inferred_hand_from(play_history)

\* mutant: the cards of the hand are not filtered out
get_inferred_next_card_unfiltered ==
    IF play_history = <<>> THEN None
    ELSE IF Cardinality(discovered_cards) < 5 THEN None
    ELSE LET last_play_time == last_play_time_of(play_history)
             cards_not_in_hand == list_discovered
         IN  IF cards_not_in_hand = <<>> THEN None
             ELSE <<min_key(cards_not_in_hand, recency_key(last_play_time))>>

\* the body of get_inferred_next_card on a tracker whose play_history is
\* history
inferred_next_card_from(history) ==
    IF history = <<>> THEN None
    ELSE IF Cardinality(discovered_cards) < 5 THEN None
    ELSE LET inferred_hand == inferred_hand_from(history)
             last_play_time == last_play_time_of(history)
             in_hand == Range(inferred_hand)
             cards_not_in_hand ==
                 SelectSeq(list_discovered, LAMBDA card : card \notin in_hand)
         IN  IF cards_not_in_hand = <<>> THEN None
             ELSE <<min_key(cards_not_in_hand, recency_key(last_play_time))>>

get_inferred_next_card == inferred_next_card_from(play_history)

RecordPlay ==
    /\ Len(play_history) < MaxPlays
    /\ \E card_name \in Cards, t \in Times :
           \E is_evolved \in EvolvedFlags(card_name) :
               record_play(card_name, is_evolved, t)
    /\ query_result' = NoAnswer
    /\ UNCHANGED <<elixir_vars, loader_vars, raised>>

\* a tracker in the middle of a match: the opening cards were each played
\* once, in the order of their names and with timestamps that do not
\* decrease, and the set iterates in any order
MidMatchInit ==
    /\ discovered_cards = 1..OpeningCards
    /\ iter_order \in {o \in [1..OpeningCards -> 1..OpeningCards] :
                          Range(o) = 1..OpeningCards}
    /\ \E ts \in [1..OpeningCards -> Times] :
           /\ \A i \in 1..(OpeningCards - 1) : ts[i] <= ts[i + 1]
           /\ play_history = [i \in 1..OpeningCards |-> CardPlay(i, FALSE, ts[i])]

LatePlay ==
    /\ Len(play_history) < OpeningCards + MaxLatePlays
    /\ \E card_name \in DeckCards, t \in Times :
           \E is_evolved \in EvolvedFlags(card_name) :
               record_play(card_name, is_evolved, t)
    /\ query_result' = NoAnswer
    /\ UNCHANGED <<elixir_vars, loader_vars, raised>>

\* a match in which every play is a card not seen before and is later than
\* the play before it
PlayInOrder ==
    /\ Len(play_history) < MaxPlays
    /\ \E card_name \in Cards \ discovered_cards, gap \in 1..MaxGap :
           \E is_evolved \in EvolvedFlags(card_name) :
               LET before == IF play_history = <<>> THEN -1
                             ELSE play_history[Len(play_history)].timestamp
               IN  record_play(card_name, is_evolved, before + gap)
    /\ query_result' = NoAnswer
    /\ UNCHANGED <<elixir_vars, loader_vars, raised>>

\* a match whose timestamps are of any sign and in any order
RecordAnyTime ==
    /\ Len(play_history) < MaxAnyPlays
    /\ \E card_name \in Cards, t \in AnyTimes :
           \E is_evolved \in EvolvedFlags(card_name) :
               record_play(card_name, is_evolved, t)
    /\ query_result' = NoAnswer
    /\ UNCHANGED <<elixir_vars, loader_vars, raised>>

\* a match, after the opening, in which any card may be reported as evolved
PlayAnyFlag ==
    /\ Len(play_history) < OpeningCards + MaxFlagPlays
    /\ \E card_name \in DeckCards, t \in Times, is_evolved \in BOOLEAN :
           record_play(card_name, is_evolved, t)
    /\ query_result' = NoAnswer
    /\ UNCHANGED <<elixir_vars, loader_vars, raised>>

\* the three queries, called by the overlay between two plays: each
\* computes its value from discovered_cards and play_history, assigns
\* nothing to the tracker and returns a new list (or a name, or None).
\* The caller keeps the value until the next play.
GetDiscoveredDeck ==
    /\ query_result' = [query_result EXCEPT !["get_discovered_deck"] = <<get_discovered_deck>>]
    /\ UNCHANGED vars_but_query_result

\* mutant: the history is sorted in place by timestamp before the ranking
\* (self.play_history.sort(key=...))
GetInferredHandSorting ==
    /\ query_result' = [query_result EXCEPT !["get_inferred_hand"] = <<get_inferred_hand>>]
    /\ play_history' =
           sorted(play_history, [play \in Range(play_history) |-> play.timestamp])
    /\ UNCHANGED <<discovered_cards, iter_order, elixir_vars, loader_vars, raised>>

GetInferredHand ==
    /\ query_result' = [query_result EXCEPT !["get_inferred_hand"] = <<get_inferred_hand>>]
    /\ UNCHANGED vars_but_query_result

GetInferredNextCard ==
    /\ query_result' =
           [query_result EXCEPT !["get_inferred_next_card"] = <<get_inferred_next_card>>]
    /\ UNCHANGED vars_but_query_result

\* a match in which the detector names some cards and not others
\* (_classify_crop reports (None, False) for a card it cannot name)
RecordDetected ==
    /\ Len(play_history) < MaxPlays
    /\ \E card_name \in {UnknownCard} \cup (1..NumNamedCards), t \in Times :
           record_play(card_name, FALSE, t)
    /\ query_result' = NoAnswer
    /\ UNCHANGED <<elixir_vars, loader_vars, raised>>

\* a match that shows one new card after the other, from the largest name
\* down, until more names are seen than a deck has cards
PlayOverDeck ==
    /\ Cardinality(discovered_cards) < DeckSize + MaxOverDeck
    /\ record_play(DeckSize + MaxOverDeck - Cardinality(discovered_cards),
                   FALSE, Len(play_history))
    /\ query_result' = NoAnswer
    /\ UNCHANGED <<elixir_vars, loader_vars, raised>>

-----------------------------------------------------------------------------
(* ElixirTracker *)

\* units of current_elixir in one elixir: a common multiple of every
\* configured seconds_per_elixir (in tenths of a second)
ElixirUnit == 4 * 9 * 5 * 7

\* constructor arguments: the defaults of __init__ and the custom values of
\* the test suite; rates in tenths of a second per elixir
DefaultConfig == [single |-> 28, double |-> 14, triple |-> 9, max |-> 10 * ElixirUnit]
CustomConfig == [single |-> 30, double |-> 15, triple |-> 10, max |-> 12 * ElixirUnit]
Configs == {DefaultConfig, CustomConfig}

\* __init__ takes any four floats: a tracker whose double rate is 0
StalledConfig == [single |-> 28, double |-> 0, triple |-> 9, max |-> 10 * ElixirUnit]

Phases == {"single", "double", "triple"}

TimeStep == 14      \* distance of two clock readings, in tenths of a second
MaxTicks == 3       \* clock readings range over 0..MaxTicks steps
MaxCost == 3        \* spend costs range over -MaxCost..MaxCost elixir
MaxDelta == 2       \* adjust deltas range over -MaxDelta..MaxDelta elixir
MaxSlack == 3       \* current_elixir is followed up to MaxSlack elixir out of range
LongWait == 30      \* one more clock reading, LongWait steps after the start

Nows == {k * TimeStep : k \in 0..MaxTicks} \cup {LongWait * TimeStep}
Costs == {c * ElixirUnit : c \in (0 - MaxCost)..MaxCost}
\* adjust deltas: a few elixir either way, and deltas as large as a cap
Deltas ==
    {d * ElixirUnit : d \in (0 - MaxDelta)..MaxDelta}
        \cup {cfg.max : cfg \in Configs} \cup {0 - cfg.max : cfg \in Configs}

Followed(e) == (0 - MaxSlack * ElixirUnit) <= e /\ e <= max_elixir + MaxSlack * ElixirUnit

ElixirInit ==
    /\ \E cfg \in Configs :
           /\ single_seconds_per_elixir = cfg.single
           /\ double_seconds_per_elixir = cfg.double
           /\ triple_seconds_per_elixir = cfg.triple
           /\ max_elixir = cfg.max
    /\ current_elixir = 0
    /\ last_update_timestamp = None
    /\ phase = "single"

\* a tracker constructed with any arguments __init__ accepts
ElixirInitAnyRate ==
    /\ \E cfg \in Configs \cup {StalledConfig} :
           /\ single_seconds_per_elixir = cfg.single
           /\ double_seconds_per_elixir = cfg.double
           /\ triple_seconds_per_elixir = cfg.triple
           /\ max_elixir = cfg.max
    /\ current_elixir = 0
    /\ last_update_timestamp = None
    /\ phase = "single"

\* mutant: the phase is ignored, the single rate is always taken
seconds_per_elixir_single == single_seconds_per_elixir

\* the rate update_time picks for the current phase
seconds_per_elixir ==
    IF phase = "single" THEN single_seconds_per_elixir
    ELSE IF phase = "double" THEN double_seconds_per_elixir
    ELSE IF phase = "triple" THEN triple_seconds_per_elixir
    ELSE single_seconds_per_elixir

\* mutant: delta_t * seconds_per_elixir (both in tenths of a second)
elixir_gain_times(delta_t) == (delta_t * seconds_per_elixir * ElixirUnit) \div 100

\* delta_t / seconds_per_elixir, in units of 1/ElixirUnit elixir (exact)
elixir_gain(delta_t) == (delta_t * ElixirUnit) \div seconds_per_elixir

\* mutant: a tracker that was never updated counts from time 0
update_time_from_zero(now_seconds) ==
    /\ LET delta_t == IF last_update_timestamp # None
                      THEN now_seconds - last_update_timestamp[1]
                      ELSE now_seconds
       IN  current_elixir' = min(current_elixir + elixir_gain(delta_t), max_elixir)
    /\ last_update_timestamp' = <<now_seconds>>
    /\ raised' = None
    /\ UNCHANGED <<phase, config_vars>>

\* mutant: the timestamp is stored by the first call only
update_time_stale_clock(now_seconds) ==
    /\ IF last_update_timestamp # None
       THEN LET delta_t == now_seconds - last_update_timestamp[1]
            IN  /\ current_elixir' = min(current_elixir + elixir_gain(delta_t), max_elixir)
                /\ UNCHANGED last_update_timestamp
       ELSE /\ UNCHANGED current_elixir
            /\ last_update_timestamp' = <<now_seconds>>
    /\ raised' = None
    /\ UNCHANGED <<phase, config_vars>>

\* mutant: the cap is missing, the elixir accrues without bound
update_time_uncapped(now_seconds) ==
    /\ IF last_update_timestamp # None
       THEN LET delta_t == now_seconds - last_update_timestamp[1]
            IN  current_elixir' = current_elixir + elixir_gain(delta_t)
       ELSE UNCHANGED current_elixir
    /\ last_update_timestamp' = <<now_seconds>>
    /\ raised' = None
    /\ UNCHANGED <<phase, config_vars>>

\* mutant: time does not run backwards (delta_t = max(0.0, ...))
update_time_monotonic(now_seconds) ==
    /\ IF last_update_timestamp # None
       THEN LET delta_t == max(0, now_seconds - last_update_timestamp[1])
            IN  current_elixir' = min(current_elixir + elixir_gain(delta_t), max_elixir)
       ELSE UNCHANGED current_elixir
    /\ last_update_timestamp' = <<now_seconds>>
    /\ raised' = None
    /\ UNCHANGED <<phase, config_vars>>

\* mutant: an earlier timestamp is rejected (raise ValueError)
update_time_checked(now_seconds) ==
    IF last_update_timestamp # None /\ now_seconds < last_update_timestamp[1]
    THEN /\ raised' = <<"ValueError">>
         /\ UNCHANGED <<current_elixir, last_update_timestamp, phase, config_vars>>
    ELSE /\ IF last_update_timestamp # None
            THEN LET delta_t == now_seconds - last_update_timestamp[1]
                 IN  current_elixir' = min(current_elixir + elixir_gain(delta_t), max_elixir)
            ELSE UNCHANGED current_elixir
         /\ last_update_timestamp' = <<now_seconds>>
         /\ raised' = None
         /\ UNCHANGED <<phase, config_vars>>

\* delta_t / seconds_per_elixir raises ZeroDivisionError for a rate of 0
\* (also for delta_t = 0); the call is left before the assignments
update_time(now_seconds) ==
    IF last_update_timestamp # None /\ seconds_per_elixir = 0
    THEN /\ raised' = <<"ZeroDivisionError">>
         /\ UNCHANGED <<current_elixir, last_update_timestamp, phase, config_vars>>
    ELSE /\ IF last_update_timestamp # None
            THEN LET delta_t == now_seconds - last_update_timestamp[1]
                 IN  current_elixir' = min(current_elixir + elixir_gain(delta_t), max_elixir)
            ELSE UNCHANGED current_elixir
         /\ last_update_timestamp' = <<now_seconds>>
         /\ raised' = None
         /\ UNCHANGED <<phase, config_vars>>

\* mutant: the lower clamp is missing
after_spend_unclamped(elixir, cost) == elixir - cost

\* mutant: the result is capped at max_elixir as well
after_spend_capped(elixir, cost) == min(max_elixir, max(0, elixir - cost))

\* mutant: a cost above the current elixir is refused
after_spend_refusing(elixir, cost) == IF elixir >= cost THEN elixir - cost ELSE elixir

\* max(0.0, self.current_elixir - cost)
after_spend(elixir, cost) == max(0, elixir - cost)

spend(cost) ==
    /\ current_elixir' = after_spend(current_elixir, cost)
    /\ UNCHANGED <<last_update_timestamp, phase, config_vars>>

set_single_elixir ==
    /\ phase' = "single"
    /\ UNCHANGED <<current_elixir, last_update_timestamp, config_vars>>

set_double_elixir ==
    /\ phase' = "double"
    /\ UNCHANGED <<current_elixir, last_update_timestamp, config_vars>>

\* mutant: the switch also clears the clock
set_triple_elixir_restart ==
    /\ phase' = "triple"
    /\ last_update_timestamp' = None
    /\ UNCHANGED <<current_elixir, config_vars>>

set_triple_elixir ==
    /\ phase' = "triple"
    /\ UNCHANGED <<current_elixir, last_update_timestamp, config_vars>>

\* mutant: the upper clamp is missing
adjust_uncapped(delta) ==
    /\ current_elixir' = max(0, current_elixir + delta)
    /\ UNCHANGED <<last_update_timestamp, phase, config_vars>>

\* mutant: the lower clamp is missing
adjust_unfloored(delta) ==
    /\ current_elixir' = min(current_elixir + delta, max_elixir)
    /\ UNCHANGED <<last_update_timestamp, phase, config_vars>>

\* mutant: no clamp at all
after_adjust_unclamped(elixir, delta) == elixir + delta

\* mutant: the cap is applied to delta, not to the sum
after_adjust_capped_delta(elixir, delta) == max(0, elixir + min(delta, max_elixir))

\* max(0.0, min(self.current_elixir + delta, self.max_elixir))
after_adjust(elixir, delta) == max(0, min(elixir + delta, max_elixir))

adjust(delta) ==
    /\ current_elixir' = after_adjust(current_elixir, delta)
    /\ UNCHANGED <<last_update_timestamp, phase, config_vars>>

UpdateTime ==
    /\ \E now_seconds \in Nows : update_time(now_seconds)
    /\ Followed(current_elixir')
    /\ UNCHANGED <<cycle_vars, loader_vars, query_result>>

Spend ==
    /\ \E cost \in Costs : spend(cost)
    /\ Followed(current_elixir')
    /\ raised' = None
    /\ UNCHANGED <<cycle_vars, loader_vars, query_result>>

Adjust ==
    /\ \E delta \in Deltas : adjust(delta)
    /\ raised' = None
    /\ UNCHANGED <<cycle_vars, loader_vars, query_result>>

SetSingle ==
    /\ set_single_elixir
    /\ raised' = None
    /\ UNCHANGED <<cycle_vars, loader_vars, query_result>>

SetDouble ==
    /\ set_double_elixir
    /\ raised' = None
    /\ UNCHANGED <<cycle_vars, loader_vars, query_result>>

SetTriple ==
    /\ set_triple_elixir
    /\ raised' = None
    /\ UNCHANGED <<cycle_vars, loader_vars, query_result>>

\* update_time as a caller within the documented precondition calls it:
\* with a timestamp that is not earlier than the last one
UpdateTimeForward ==
    /\ \E now_seconds \in Nows :
           /\ last_update_timestamp # None => now_seconds >= last_update_timestamp[1]
           /\ update_time(now_seconds)
    /\ UNCHANGED <<cycle_vars, loader_vars, query_result>>

\* spend as such a caller calls it: with a cost that is not negative
SpendCost ==
    /\ \E cost \in Costs : cost >= 0 /\ spend(cost)
    /\ raised' = None
    /\ UNCHANGED <<cycle_vars, loader_vars, query_result>>

\* no ConfigLoader is in play and no call has failed
LoaderIdle ==
    /\ config_file = None
    /\ loader = None
    /\ heap = <<>>
    /\ returned = <<>>
    /\ query_result = NoAnswer
    /\ raised = None

\* the elixir tracker of a run that only exercises the cycle tracker
ElixirIdle ==
    /\ single_seconds_per_elixir = DefaultConfig.single
    /\ double_seconds_per_elixir = DefaultConfig.double
    /\ triple_seconds_per_elixir = DefaultConfig.triple
    /\ max_elixir = DefaultConfig.max
    /\ current_elixir = 0
    /\ last_update_timestamp = None
    /\ phase = "single"

-----------------------------------------------------------------------------
(* ElixirTracker in floating point *)
(*                                                                         *)
(* The code computes in Python floats: every "-", "/" and "+" of           *)
(* update_time rounds its exact result to the nearest float.  The format   *)
(* is binary with round-half-to-even as in the code, with a significand of *)
(* Precision bits in place of 53.  Seconds and elixir are counted in       *)
(* 1/FloatGrid here; FloatGrid is the finest step of the format (gradual   *)
(* underflow), fine enough that no quotient of update_time falls below it. *)

Precision == 4

FloatGrid == 2 ^ (Precision + 3)

\* a / b rounded to the nearest integer, a tie to the even one (a >= 0, b > 0)
round_half_even(a, b) ==
    LET d == a \div b
        r == a % b
    IN  IF 2 * r < b THEN d
        ELSE IF 2 * r > b THEN d + 1
        ELSE IF d % 2 = 0 THEN d ELSE d + 1

\* the step between neighbouring floats at a / b: the least power of two
\* (from step on) that leaves a significand below 2^Precision
RECURSIVE float_step(_, _, _)
float_step(a, b, step) ==
    IF a < (2 ^ Precision) * b * step THEN step ELSE float_step(a, b, 2 * step)

\* the float nearest to num / den (den > 0)
round_to_float(num, den) ==
    LET a == IF num < 0 THEN 0 - num ELSE num
        step == float_step(a, den, 1)
        significand == round_half_even(a, den * step)
    IN  IF num < 0 THEN 0 - significand * step ELSE significand * step

\* the float of a decimal literal given in tenths (2.8 is float_of_tenths(28))
float_of_tenths(tenths) == round_to_float(tenths * FloatGrid, 10)

float_sub(x, y) == round_to_float(x - y, 1)
float_add(x, y) == round_to_float(x + y, 1)
\* x / y for y > 0
float_div(x, y) == round_to_float(x * FloatGrid, y)

\* clock readings passed to update_time: 0.0, 1.4, 2.8, 4.2, 7.0 as floats
FloatNows == {float_of_tenths(k * TimeStep) : k \in 0..MaxTicks} \cup {float_of_tenths(70)}

\* __init__ called with the float arguments of a configuration
ElixirInitFloat ==
    /\ \E cfg \in Configs :
           /\ single_seconds_per_elixir = float_of_tenths(cfg.single)
           /\ double_seconds_per_elixir = float_of_tenths(cfg.double)
           /\ triple_seconds_per_elixir = float_of_tenths(cfg.triple)
           /\ max_elixir = round_to_float(cfg.max * FloatGrid, ElixirUnit)
    /\ current_elixir = 0
    /\ last_update_timestamp = None
    /\ phase = "single"

\* a tracker as update_time sees it
Tracker(elixir, last) == [current_elixir |-> elixir, last_update_timestamp |-> last]

\* mutant: the elapsed time is counted from 0.0, not from the last update
after_update_time_from_zero(tracker, now_seconds) ==
    IF tracker.last_update_timestamp # None
    THEN LET delta_t == float_sub(now_seconds, 0)
             gain == float_div(delta_t, seconds_per_elixir)
         IN  Tracker(min(float_add(tracker.current_elixir, gain), max_elixir),
                     <<now_seconds>>)
    ELSE Tracker(tracker.current_elixir, <<now_seconds>>)

\* the tracker update_time(now_seconds) leaves, for a rate that is not 0
after_update_time(tracker, now_seconds) ==
    IF tracker.last_update_timestamp # None
    THEN LET delta_t == float_sub(now_seconds, tracker.last_update_timestamp[1])
             gain == float_div(delta_t, seconds_per_elixir)
         IN  Tracker(min(float_add(tracker.current_elixir, gain), max_elixir),
                     <<now_seconds>>)
    ELSE Tracker(tracker.current_elixir, <<now_seconds>>)

\* update_time in floating point
update_time_float(now_seconds) ==
    IF last_update_timestamp # None /\ seconds_per_elixir = 0
    THEN /\ raised' = <<"ZeroDivisionError">>
         /\ UNCHANGED <<current_elixir, last_update_timestamp, phase, config_vars>>
    ELSE LET after == after_update_time(Tracker(current_elixir, last_update_timestamp),
                                        now_seconds)
         IN  /\ current_elixir' = after.current_elixir
             /\ last_update_timestamp' = after.last_update_timestamp
             /\ raised' = None
             /\ UNCHANGED <<phase, config_vars>>

UpdateTimeFloat ==
    /\ \E now_seconds \in FloatNows : update_time_float(now_seconds)
    /\ UNCHANGED <<cycle_vars, loader_vars, query_result>>

-----------------------------------------------------------------------------
(* ConfigLoader *)

\* JSON values as json.load returns them: a dict, or a value that is not a
\* container (a number stands for these)
Number(n) == [type |-> "number", value |-> n]
Object(items) == [type |-> "object", items |-> items]

\* the dicts with some of the keys K and, under key k, a value of V(k)
ObjectsWith(K, V) ==
    UNION {{Object(items) :
                items \in {f \in [S -> UNION {V[k] : k \in S}] :
                               \A k \in S : f[k] \in V[k]}} :
           S \in SUBSET K}

\* the knowledge files of the model: every section is missing, a number,
\* or a dict with some of the keys the loader reads
RateInFile ==
    [single_elixir |-> DefaultConfig.single,
     double_elixir |-> DefaultConfig.double,
     triple_elixir |-> DefaultConfig.triple]
PhaseValues(k) ==
    {Number(0), Object(<<>>), Object("exact_seconds_per_elixir" :> Number(RateInFile[k]))}
ElixirValues ==
    {Number(0)} \cup ObjectsWith({"single_elixir", "double_elixir", "triple_elixir"},
                                 [k \in {"single_elixir", "double_elixir", "triple_elixir"} |->
                                      PhaseValues(k)])
MechanicsValues ==
    {Number(0)} \cup ObjectsWith({"elixir"}, [k \in {"elixir"} |-> ElixirValues])
CardsValues ==
    {Number(0)} \cup ObjectsWith({"cards_by_elixir", "evolution_cycles"},
                                 [k \in {"cards_by_elixir", "evolution_cycles"} |-> {Object(<<>>)}])
ConfigValues ==
    {Number(0)} \cup ObjectsWith({"cards", "game_mechanics"},
                                 [k \in {"cards", "game_mechanics"} |->
                                      IF k = "cards" THEN CardsValues ELSE MechanicsValues])

\* what config_path leads to: no file (None), or a file with a JSON value
ConfigFiles == {None} \cup {<<config>> : config \in ConfigValues}

\* "key not in value": TypeError for a value that is not a container
not_in(key, value) ==
    IF value.type # "object" THEN <<"TypeError">>
    ELSE IF key \notin DOMAIN value.items THEN <<"ValueError">>
    ELSE None

\* the first of a sequence of checks that raises
first_raised(checks) ==
    IF \E i \in 1..Len(checks) : checks[i] # None
    THEN checks[CHOOSE i \in 1..Len(checks) :
                    /\ checks[i] # None
                    /\ \A j \in 1..(i - 1) : checks[j] = None]
    ELSE None

\* mutant: evolution_cycles is not asked for
validate_schema_lenient(config) ==
    LET top == first_raised(<<not_in("cards", config), not_in("game_mechanics", config)>>)
    IN  IF top # None THEN top
        ELSE LET cards == config.items["cards"]
                 game_mechanics == config.items["game_mechanics"]
                 sections == first_raised(<<not_in("cards_by_elixir", cards),
                                            not_in("elixir", game_mechanics)>>)
             IN  IF sections # None THEN sections
                 ELSE LET elixir == game_mechanics.items["elixir"]
                      IN  first_raised(<<not_in("single_elixir", elixir),
                                         not_in("double_elixir", elixir),
                                         not_in("triple_elixir", elixir)>>)

\* _validate_schema: None when it returns, or the exception it raises
validate_schema(config) ==
    LET top == first_raised(<<not_in("cards", config), not_in("game_mechanics", config)>>)
    IN  IF top # None THEN top
        ELSE LET cards == config.items["cards"]
                 game_mechanics == config.items["game_mechanics"]
                 sections == first_raised(<<not_in("cards_by_elixir", cards),
                                            not_in("evolution_cycles", cards),
                                            not_in("elixir", game_mechanics)>>)
             IN  IF sections # None THEN sections
                 ELSE LET elixir == game_mechanics.items["elixir"]
                      IN  first_raised(<<not_in("single_elixir", elixir),
                                         not_in("double_elixir", elixir),
                                         not_in("triple_elixir", elixir)>>)

\* the place in heap of the object json.load built for
\* _config["cards"]["evolution_cycles"]
LoaderCycles == 1

\* ConfigLoader(config_path): _load_config raises FileNotFoundError when
\* there is no file, _validate_schema raises on the parsed value, and an
\* exception leaves no instance.  loader holds the value json.load parsed;
\* the object under ["cards"]["evolution_cycles"], the one whose content
\* get_evolution_cycles hands out, lives in heap.
NewConfigLoader ==
    /\ loader = None
    /\ raised = None
    /\ IF config_file = None
       THEN /\ raised' = <<"FileNotFoundError">>
            /\ loader' = None
            /\ UNCHANGED heap
       ELSE LET error == validate_schema(config_file[1])
            IN  IF error # None
                THEN /\ raised' = error
                     /\ loader' = None
                     /\ UNCHANGED heap
                ELSE /\ raised' = None
                     /\ loader' = config_file
                     /\ heap' = LET cards == config_file[1].items["cards"]
                                IN  IF "evolution_cycles" \in DOMAIN cards.items
                                    THEN <<cards.items["evolution_cycles"]>>
                                    ELSE <<>>
    /\ UNCHANGED <<config_file, returned, query_result, cycle_vars, elixir_vars>>

\* knowledge files that pass the validation and differ in evolution_cycles
EvolutionCards == {"Barbarians", "Firecracker"}
MaxCycles == 2
CyclesInFile ==
    {Number(0)} \cup ObjectsWith(EvolutionCards, [k \in EvolutionCards |-> 1..MaxCycles])
FileWithCycles(evolution_cycles) ==
    Object("cards" :> Object("cards_by_elixir" :> Object(<<>>)
                                 @@ "evolution_cycles" :> evolution_cycles)
               @@ "game_mechanics" :>
                      Object("elixir" :>
                                 Object([k \in {"single_elixir", "double_elixir", "triple_elixir"} |->
                                            Object("exact_seconds_per_elixir" :>
                                                       Number(RateInFile[k]))])))

MaxCalls == 2       \* get_evolution_cycles is called up to MaxCalls times

\* mutant: the dict of the loader itself is returned (no .copy())
get_evolution_cycles_shared ==
    /\ loader # None
    /\ Len(returned) < MaxCalls
    /\ IF heap = <<>>
       THEN /\ raised' = <<"KeyError">>
            /\ UNCHANGED <<heap, returned>>
       ELSE IF heap[LoaderCycles].type # "object"
       THEN /\ raised' = <<"AttributeError">>
            /\ UNCHANGED <<heap, returned>>
       ELSE /\ raised' = None
            /\ UNCHANGED heap
            /\ returned' = Append(returned, LoaderCycles)
    /\ UNCHANGED <<config_file, loader>>

\* get_evolution_cycles(): dict.copy() builds a new dict object with the
\* items of the loader's; a value that is not a container has no copy(), and
\* the subscript raises KeyError when the file has no evolution_cycles
get_evolution_cycles ==
    /\ loader # None
    /\ Len(returned) < MaxCalls
    /\ IF heap = <<>>
       THEN /\ raised' = <<"KeyError">>
            /\ UNCHANGED <<heap, returned>>
       ELSE IF heap[LoaderCycles].type # "object"
       THEN /\ raised' = <<"AttributeError">>
            /\ UNCHANGED <<heap, returned>>
       ELSE /\ raised' = None
            /\ heap' = Append(heap, heap[LoaderCycles])
            /\ returned' = Append(returned, Len(heap) + 1)
    /\ UNCHANGED <<config_file, loader>>

GetEvolutionCycles ==
    /\ get_evolution_cycles
    /\ UNCHANGED <<query_result, cycle_vars, elixir_vars>>

\* the caller changes a mapping it was given: mapping[card] = cycles adds or
\* changes an entry, del mapping[card] removes one
ChangeReturned ==
    /\ \E i \in 1..Len(returned) : \E card \in EvolutionCards :
           LET mapping == heap[returned[i]].items
           IN  \/ \E cycles \in 1..(MaxCycles + 1) :
                      /\ card \in DOMAIN mapping => mapping[card] # cycles
                      /\ heap' = [heap EXCEPT ![returned[i]] =
                                      Object((card :> cycles) @@ mapping)]
               \/ /\ card \in DOMAIN mapping
                  /\ heap' = [heap EXCEPT ![returned[i]] =
                                  Object([c \in DOMAIN mapping \ {card} |-> mapping[c]])]
    /\ raised' = None
    /\ UNCHANGED <<config_file, loader, returned, query_result, cycle_vars, elixir_vars>>

\* value[key] on what get_elixir_timing reads: TypeError for a number,
\* KeyError for a dict without the key
subscript_raises(value, key) ==
    IF value.type # "object" THEN <<"TypeError">>
    ELSE IF key \notin DOMAIN value.items THEN <<"KeyError">>
    ELSE None

\* get_elixir_timing() on a loader whose _config is config: the exception
\* it raises, or the ElixirTiming it returns
get_elixir_timing(config) ==
    LET elixir == config.items["game_mechanics"].items["elixir"]
        error == first_raised(
            <<subscript_raises(elixir.items["single_elixir"], "exact_seconds_per_elixir"),
              subscript_raises(elixir.items["double_elixir"], "exact_seconds_per_elixir"),
              subscript_raises(elixir.items["triple_elixir"], "exact_seconds_per_elixir")>>)
    IN  IF error # None THEN [raised |-> error, timing |-> None]
        ELSE [raised |-> None,
              timing |-> <<[single_seconds_per_elixir |->
                                elixir.items["single_elixir"].items["exact_seconds_per_elixir"],
                            double_seconds_per_elixir |->
                                elixir.items["double_elixir"].items["exact_seconds_per_elixir"],
                            triple_seconds_per_elixir |->
                                elixir.items["triple_elixir"].items["exact_seconds_per_elixir"]]>>]

-----------------------------------------------------------------------------
(* Specifications *)

\* a fresh CardCycleTracker under any sequence of record_play calls
Init == CycleInit /\ ElixirIdle /\ LoaderIdle

Next == RecordPlay

Spec == Init /\ [][Next]_vars

\* a fresh ElixirTracker under any sequence of its operations
InitElixir == CycleInit /\ ElixirInit /\ LoaderIdle

NextElixir ==
    \/ UpdateTime
    \/ Spend
    \/ Adjust
    \/ SetSingle
    \/ SetDouble
    \/ SetTriple

SpecElixir == InitElixir /\ [][NextElixir]_vars

\* a fresh ElixirTracker under any sequence of well-formed calls
NextWellFormed ==
    \/ UpdateTimeForward
    \/ SpendCost
    \/ Adjust
    \/ SetSingle
    \/ SetDouble
    \/ SetTriple

SpecWellFormed == InitElixir /\ [][NextWellFormed]_vars

\* a fresh ElixirTracker of any rates under any sequence of its operations
InitElixirAnyRate == CycleInit /\ ElixirInitAnyRate /\ LoaderIdle

SpecElixirAnyRate == InitElixirAnyRate /\ [][NextElixir]_vars

\* a fresh ElixirTracker in floating point under update_time and the phase
\* setters
InitFloat == CycleInit /\ ElixirInitFloat /\ LoaderIdle

NextFloat ==
    \/ UpdateTimeFloat
    \/ SetSingle
    \/ SetDouble
    \/ SetTriple

SpecFloat == InitFloat /\ [][NextFloat]_vars

\* a ConfigLoader on a knowledge file that passes the validation, and a
\* caller that asks for the evolution cycles and changes what it is given
InitCycles ==
    /\ CycleInit
    /\ ElixirIdle
    /\ config_file \in {<<FileWithCycles(evolution_cycles)>> : evolution_cycles \in CyclesInFile}
    /\ loader = None
    /\ heap = <<>>
    /\ returned = <<>>
    /\ query_result = NoAnswer
    /\ raised = None

NextCycles ==
    \/ NewConfigLoader
    \/ GetEvolutionCycles
    \/ ChangeReturned

SpecCycles == InitCycles /\ [][NextCycles]_vars

\* the construction of a ConfigLoader on any knowledge file
InitConfig ==
    /\ CycleInit
    /\ ElixirIdle
    /\ config_file \in ConfigFiles
    /\ loader = None
    /\ heap = <<>>
    /\ returned = <<>>
    /\ query_result = NoAnswer
    /\ raised = None

NextConfig == NewConfigLoader

SpecConfig == InitConfig /\ [][NextConfig]_vars

\* a CardCycleTracker after an opening of OpeningCards plays
InitMidMatch == MidMatchInit /\ ElixirIdle /\ LoaderIdle

NextMidMatch == LatePlay

SpecMidMatch == InitMidMatch /\ [][NextMidMatch]_vars

\* a fresh CardCycleTracker fed distinct cards at increasing timestamps
NextInOrder == PlayInOrder

SpecInOrder == Init /\ [][NextInOrder]_vars

\* a fresh CardCycleTracker fed more distinct cards than a deck has
NextOverDeck == PlayOverDeck

SpecOverDeck == Init /\ [][NextOverDeck]_vars

\* a fresh CardCycleTracker fed named cards and the unknown card
NextUnknown == RecordDetected

SpecUnknown == Init /\ [][NextUnknown]_vars

\* a CardCycleTracker after the opening, fed plays with any is_evolved flag
NextAnyFlag == PlayAnyFlag

SpecAnyFlag == InitMidMatch /\ [][NextAnyFlag]_vars

\* a CardCycleTracker after the opening that is queried between the plays
NextQueried ==
    \/ PlayAnyFlag
    \/ GetDiscoveredDeck
    \/ GetInferredHand
    \/ GetInferredNextCard

SpecQueried == InitMidMatch /\ [][NextQueried]_vars

\* a fresh CardCycleTracker fed timestamps of any sign, in any order
NextAnyTime == RecordAnyTime

SpecAnyTime == Init /\ [][NextAnyTime]_vars

-----------------------------------------------------------------------------
(* Vocabulary of the claims, stated from the recorded plays alone *)

\* the names passed to record_play so far
NamesPlayed == {play_history[i].card_name : i \in 1..Len(play_history)}

\* the timestamp of the latest entry of a card in play_history
LastPlayed(card) ==
    LET last == CHOOSE i \in 1..Len(play_history) :
                    /\ play_history[i].card_name = card
                    /\ \A j \in (i + 1)..Len(play_history) :
                           play_history[j].card_name # card
    IN  play_history[last].timestamp

NumDiscovered == Cardinality(discovered_cards)

\* s lists the elements of S once each, ascending by name
IsAscendingListOf(s, S) ==
    /\ Len(s) = Cardinality(S)
    /\ Range(s) = S
    /\ \A i \in 1..Len(s) : \A j \in (i + 1)..Len(s) : s[i] < s[j]

-----------------------------------------------------------------------------
(* C1 *)

ElixirInRange == 0 <= current_elixir /\ current_elixir <= max_elixir

\* C1, as claimed: after every operation, with whatever arguments,
\* 0 <= current_elixir <= max_elixir.
C1_ElixirAlwaysInRange == ElixirInRange

RatesPositive ==
    /\ single_seconds_per_elixir > 0
    /\ double_seconds_per_elixir > 0
    /\ triple_seconds_per_elixir > 0

\* a call with arguments inside the documented preconditions: timestamps do
\* not decrease, costs are not negative
WellFormedCall ==
    \/ \E now_seconds \in Nows :
           /\ last_update_timestamp # None => now_seconds >= last_update_timestamp[1]
           /\ update_time(now_seconds)
    \/ \E cost \in Costs : cost >= 0 /\ spend(cost)
    \/ \E delta \in Deltas : adjust(delta)
    \/ set_single_elixir
    \/ set_double_elixir
    \/ set_triple_elixir

\* C1, amended: on a tracker with positive rates, an operation called with
\* 0 <= current_elixir <= max_elixir leaves it in that range, provided an
\* update_time is not earlier than the last one and a spend cost is not
\* negative; adjust and the phase setters do so for every argument.
C1_WellFormedCallKeepsRange ==
    [][(ElixirInRange /\ RatesPositive /\ WellFormedCall) => ElixirInRange']_vars

\* later updates accrued elixir in the triple phase, below the cap
C1_Witness ==
    /\ last_update_timestamp # None
    /\ last_update_timestamp[1] > 0
    /\ 0 < current_elixir
    /\ current_elixir < max_elixir
    /\ phase = "triple"

-----------------------------------------------------------------------------
(* C2 *)

\* C2: after any sequence of record_play calls on a fresh tracker there are
\* at most as many discovered cards as entries of play_history, and every
\* discovered card is the card_name of some entry of play_history.
C2_DiscoveredWithinHistory ==
    /\ Cardinality(discovered_cards) <= Len(play_history)
    /\ \A card \in discovered_cards :
           \E i \in 1..Len(play_history) : play_history[i].card_name = card

\* three cards discovered by five plays: names were repeated
C2_Witness == Cardinality(discovered_cards) = 3 /\ Len(play_history) = 5

-----------------------------------------------------------------------------
(* C3 *)

\* C3: before and after every record_play call the length of
\* get_discovered_deck() is the number of distinct names passed to
\* record_play so far, and the call does not decrease it.
C3_DeckCountsDistinctNames ==
    [][/\ Len(get_discovered_deck) = Cardinality(NamesPlayed)
       /\ Len(get_discovered_deck') = Cardinality(NamesPlayed')
       /\ Len(get_discovered_deck') >= Len(get_discovered_deck)]_vars

\* a name recorded twice next to another name: two in the deck, four plays
C3_Witness ==
    /\ Len(get_discovered_deck) = 2
    /\ Len(play_history) = 4
    /\ play_history[1].card_name = play_history[3].card_name

-----------------------------------------------------------------------------
(* C4 *)

\* C4: get_inferred_hand() never has more than 4 elements, and it has
\* exactly 4 whenever at least 4 distinct cards are discovered.
C4_HandSize ==
    LET hand == get_inferred_hand
    IN  /\ Len(hand) <= 4
        /\ NumDiscovered >= 4 => Len(hand) = 4

\* five cards discovered, four of them in the hand
C4_Witness == NumDiscovered = 5 /\ Len(get_inferred_hand) = 4

-----------------------------------------------------------------------------
(* C5 *)

\* C5: get_inferred_next_card() is None while fewer than 5 cards are
\* discovered; with 5 or more it is a discovered card that is not in
\* get_inferred_hand() of the same state.
C5_NextCardOutsideHand ==
    LET next_card == get_inferred_next_card
    IN  /\ NumDiscovered < 5 => next_card = None
        /\ NumDiscovered >= 5 =>
               /\ next_card # None
               /\ next_card[1] \in discovered_cards
               /\ next_card[1] \notin Range(get_inferred_hand)

\* five cards discovered and a next card is named
C5_Witness ==
    /\ NumDiscovered >= 5
    /\ get_inferred_next_card # None
    /\ Len(get_inferred_hand) = 4

-----------------------------------------------------------------------------
(* C6 *)

\* C6: with at least 4 cards discovered get_inferred_hand() is 4 discovered
\* cards in ascending order of last-played timestamp, and no discovered card
\* outside it was last played earlier than a card in it.
C6_HandIsLeastRecent ==
    NumDiscovered >= 4 =>
        LET hand == get_inferred_hand
        IN  /\ Len(hand) = 4
            /\ Range(hand) \subseteq discovered_cards
            /\ Cardinality(Range(hand)) = 4
            /\ \A i \in 1..3 : LastPlayed(hand[i]) <= LastPlayed(hand[i + 1])
            /\ \A out \in discovered_cards \ Range(hand) :
                   \A i \in 1..4 : LastPlayed(hand[i]) <= LastPlayed(out)

\* six cards discovered, a card of the opening was played again later than
\* its first play and is left out of the hand
C6_Witness ==
    /\ NumDiscovered = 6
    /\ \E i \in 1..OpeningCards :
           /\ i \notin Range(get_inferred_hand)
           /\ LastPlayed(i) > play_history[i].timestamp

-----------------------------------------------------------------------------
(* C7 *)

\* C7: with at least 5 cards discovered get_inferred_next_card() is a
\* discovered card outside get_inferred_hand(), and no discovered card
\* outside the hand was last played earlier than it.
C7_NextIsLeastRecentOutsideHand ==
    NumDiscovered >= 5 =>
        LET next_card == get_inferred_next_card
            outside == discovered_cards \ Range(get_inferred_hand)
        IN  /\ next_card # None
            /\ next_card[1] \in outside
            /\ \A other \in outside : LastPlayed(next_card[1]) <= LastPlayed(other)

\* two cards outside the hand with different last-played timestamps, the
\* set iterating over the later one first
C7_Witness ==
    /\ NumDiscovered = 6
    /\ get_inferred_next_card # None
    /\ \E i \in 1..5 :
           /\ iter_order[i] \notin Range(get_inferred_hand)
           /\ iter_order[i] # get_inferred_next_card[1]
           /\ iter_order[i + 1] = get_inferred_next_card[1]
           /\ LastPlayed(iter_order[i]) > LastPlayed(iter_order[i + 1])

-----------------------------------------------------------------------------
(* C8 *)

\* the discovered cards ranked by the total key
\* (last_played_timestamp, card_identifier)
TotalKeyRanking ==
    LET before(a, b) ==
            \/ LastPlayed(a) < LastPlayed(b)
            \/ LastPlayed(a) = LastPlayed(b) /\ a < b
    IN  [p \in 1..NumDiscovered |->
            CHOOSE card \in discovered_cards :
                Cardinality({other \in discovered_cards : before(other, card)}) = p - 1]

\* C8: cards with equal last-played timestamps are ranked by the total key
\* (last_played_timestamp, card_identifier): the hand is the first four
\* cards of that ranking and the next card is the fifth, whatever order the
\* discovered-card set iterates in.
C8_TotalKeyRanking ==
    /\ NumDiscovered >= 4 => get_inferred_hand = SubSeq(TotalKeyRanking, 1, 4)
    /\ NumDiscovered >= 5 => get_inferred_next_card = <<TotalKeyRanking[5]>>

-----------------------------------------------------------------------------
(* C9 *)

\* every recorded play is of another card and later than the one before
PlayedOnceInOrder ==
    /\ \A i \in 1..Len(play_history) : \A j \in (i + 1)..Len(play_history) :
           play_history[i].card_name # play_history[j].card_name
    /\ \A i \in 1..(Len(play_history) - 1) :
           play_history[i].timestamp < play_history[i + 1].timestamp

-----------------------------------------------------------------------------
(* C10 *)

\* C10: while fewer than 4 cards are discovered get_inferred_hand() is
\* get_discovered_deck(), all discovered cards in ascending order of name
\* whatever their timestamps; with no play recorded it is empty and
\* get_inferred_next_card() is None.
C10_SmallHandIsDeck ==
    /\ NumDiscovered < 4 =>
           LET hand == get_inferred_hand
           IN  /\ hand = get_discovered_deck
               /\ IsAscendingListOf(hand, NamesPlayed)
    /\ play_history = <<>> =>
           /\ get_inferred_hand = <<>>
           /\ get_inferred_next_card = None

\* three cards discovered, and the name order of the hand is not the order
\* of their last plays
C10_Witness ==
    /\ NumDiscovered = 3
    /\ Len(get_inferred_hand) = 3
    /\ LastPlayed(get_inferred_hand[1]) > LastPlayed(get_inferred_hand[3])

-----------------------------------------------------------------------------
(* C11 *)

\* C11: record_play(card_name, is_evolved, t) can be called in every state
\* with every name (the smallest name stands for the empty string) and every
\* timestamp (zero, negative, or smaller than earlier ones), and the call
\* leaves play_history equal to the old play_history with the event
\* (card_name, is_evolved, t) appended at the end and discovered_cards equal
\* to the old set plus card_name.
C11_RecordPlayAppends ==
    [][\A card_name \in Cards, t \in AnyTimes : \A is_evolved \in BOOLEAN :
           /\ ENABLED record_play(card_name, is_evolved, t)
           /\ record_play(card_name, is_evolved, t) =>
                  /\ Len(play_history') = Len(play_history) + 1
                  /\ SubSeq(play_history', 1, Len(play_history)) = play_history
                  /\ play_history'[Len(play_history')].card_name = card_name
                  /\ play_history'[Len(play_history')].is_evolved = is_evolved
                  /\ play_history'[Len(play_history')].timestamp = t
                  /\ discovered_cards' = discovered_cards \cup {card_name}]_vars

\* a known card recorded again with a negative timestamp, earlier than the
\* timestamp of the play before it
C11_Witness ==
    /\ Len(play_history) = 3
    /\ play_history[3].card_name = play_history[1].card_name
    /\ play_history[3].timestamp < 0
    /\ play_history[3].timestamp < play_history[2].timestamp
    /\ NumDiscovered = 2

-----------------------------------------------------------------------------
(* C12 *)

\* C12: get_discovered_deck() lists every discovered card exactly once, in
\* strictly ascending order of name, whatever the order in which the cards
\* were recorded and the order in which the set iterates.
C12_DeckAscending ==
    LET deck == get_discovered_deck
    IN  /\ Range(deck) = discovered_cards
        /\ \A i \in 1..(Len(deck) - 1) : deck[i] < deck[i + 1]

\* four cards, first recorded in descending order of name, and the set
\* does not iterate in ascending order
C12_Witness ==
    /\ NumDiscovered = 4
    /\ play_history[1].card_name > play_history[2].card_name
    /\ play_history[2].card_name > play_history[3].card_name
    /\ iter_order # get_discovered_deck

-----------------------------------------------------------------------------
(* C13 *)

\* C13: the first update_time(now) call, whatever spend, adjust or set_*
\* calls came before it, performs no accrual: current_elixir is unchanged
\* and last_update_timestamp becomes now.
C13_FirstUpdateSetsClock ==
    [][\A now \in Nows :
           (last_update_timestamp = None /\ update_time(now)) =>
               /\ current_elixir' = current_elixir
               /\ last_update_timestamp' = <<now>>]_vars

\* two elixir and the double phase were set by hand, and the first update
\* came at a time after 0: the two elixir are still there
C13_Witness ==
    /\ last_update_timestamp = <<TimeStep>>
    /\ current_elixir = 2 * ElixirUnit
    /\ phase = "double"

-----------------------------------------------------------------------------
(* C14 *)

\* the seconds-per-elixir configured for a phase
rate(X) ==
    CASE X = "single" -> single_seconds_per_elixir
      [] X = "double" -> double_seconds_per_elixir
      [] X = "triple" -> triple_seconds_per_elixir

\* C14: every update_time(now) call after the first sets current_elixir to
\* min(max_elixir, current_elixir + (now - last_update_timestamp) / rate(phase))
\* and then sets last_update_timestamp to now.
C14_LaterUpdateAccrues ==
    [][\A now \in Nows :
           (last_update_timestamp # None /\ update_time(now)) =>
               LET elapsed == now - last_update_timestamp[1]
                   \* (current_elixir + elapsed / rate(phase)) * rate(phase)
                   scaled_sum == current_elixir * rate(phase) + elapsed * ElixirUnit
               IN  /\ IF scaled_sum <= max_elixir * rate(phase)
                      THEN current_elixir' * rate(phase) = scaled_sum
                      ELSE current_elixir' = max_elixir
                   /\ last_update_timestamp' = <<now>>]_vars

\* two steps of the clock accrued in the double phase
C14_Witness ==
    /\ last_update_timestamp = <<2 * TimeStep>>
    /\ phase = "double"
    /\ current_elixir * rate("double") = 2 * TimeStep * ElixirUnit

-----------------------------------------------------------------------------
(* C15 *)

\* C15: spend(cost) sets current_elixir to max(0, current_elixir - cost): it
\* subtracts the cost when the tracker holds at least that much and clamps
\* to 0 when the cost exceeds the current value.
C15_SpendSubtractsOrClamps ==
    [][\A cost \in Costs :
           spend(cost) =>
               /\ current_elixir >= cost => current_elixir' = current_elixir - cost
               /\ cost > current_elixir => current_elixir' = 0]_vars

\* one step of the clock accrued in the triple phase and one elixir spent
C15_Witness ==
    /\ last_update_timestamp = <<TimeStep>>
    /\ phase = "triple"
    /\ (current_elixir + ElixirUnit) * rate("triple") = TimeStep * ElixirUnit

-----------------------------------------------------------------------------
(* C16 *)

\* C16: adjust(delta) sets current_elixir to current_elixir + delta clamped
\* to [0, max_elixir], for delta of either sign.
C16_AdjustClamps ==
    [][\A delta \in Deltas :
           adjust(delta) =>
               LET target == current_elixir + delta
               IN  current_elixir' = IF target < 0 THEN 0
                                     ELSE IF target > max_elixir THEN max_elixir
                                     ELSE target]_vars

\* the elixir is at the cap of a tracker that was never updated
C16_Witness ==
    /\ last_update_timestamp = None
    /\ current_elixir = max_elixir

-----------------------------------------------------------------------------
(* C17 *)

\* a step that sets the phase to X changes nothing else, and is no change at
\* all where the phase is X already
OnlyPhase(X) ==
    /\ phase' = X
    /\ UNCHANGED <<current_elixir, last_update_timestamp, config_vars>>
    /\ phase = X => UNCHANGED vars

\* C17: set_single_elixir, set_double_elixir and set_triple_elixir change
\* only phase, to the named phase: current_elixir, last_update_timestamp, the
\* three rates and max_elixir are unchanged, and the setter called in the
\* state it has left changes nothing, so that two calls leave the state of one.
C17_SettersChangeOnlyPhase ==
    [][/\ set_single_elixir => OnlyPhase("single")
       /\ set_double_elixir => OnlyPhase("double")
       /\ set_triple_elixir => OnlyPhase("triple")]_vars

\* the double phase was set on a tracker holding one elixir, updated at 0
C17_Witness ==
    /\ phase = "double"
    /\ last_update_timestamp = <<0>>
    /\ current_elixir = ElixirUnit

-----------------------------------------------------------------------------
(* C18 *)

\* C18: a phase switch does not touch current_elixir or the time of the
\* previous update_time, and the next update_time(t1) charges the whole
\* interval since the previous update_time(t0) at the rate of the phase X
\* current when it is invoked: the gain is (t1 - t0) / rate(X) before
\* capping, whatever phase was in force at t0.
C18_SwitchChargedAtNextUpdate ==
    [][/\ (set_single_elixir \/ set_double_elixir \/ set_triple_elixir) =>
              UNCHANGED <<current_elixir, last_update_timestamp>>
       /\ \A t1 \in Nows : \A X \in Phases :
              (/\ last_update_timestamp # None
               /\ phase = X
               /\ update_time(t1)
               /\ current_elixir' < max_elixir) =>
                  LET t0 == last_update_timestamp[1]
                  IN  (current_elixir' - current_elixir) * rate(X)
                          = (t1 - t0) * ElixirUnit]_vars

\* three steps of the clock charged at the triple rate
C18_Witness ==
    /\ last_update_timestamp = <<3 * TimeStep>>
    /\ phase = "triple"
    /\ current_elixir * rate("triple") = 3 * TimeStep * ElixirUnit

-----------------------------------------------------------------------------
(* C19 *)

\* a tracker as constructed
Fresh ==
    /\ current_elixir = 0
    /\ last_update_timestamp = None
    /\ phase = "single"

\* C19: on a fresh tracker in single phase with rate r, for now2 > now1 >= 0,
\* update_time(now1) followed directly by update_time(now2) leaves
\* current_elixir = min(max_elixir, (now2 - now1) / r): the first call leaves
\* the tracker with no elixir at now1, and the second call made in that
\* state leaves min(max_elixir, (now2 - now1) / r).
C19_TwoUpdatesOnFreshTracker ==
    [][\A now1 \in Nows : \A now2 \in Nows :
           /\ (Fresh /\ now1 >= 0 /\ update_time(now1)) =>
                  /\ current_elixir' = 0
                  /\ last_update_timestamp' = <<now1>>
                  /\ phase' = "single"
           /\ (/\ current_elixir = 0
               /\ last_update_timestamp = <<now1>>
               /\ phase = "single"
               /\ now2 > now1
               /\ update_time(now2)) =>
                  LET r == single_seconds_per_elixir
                  IN  IF (now2 - now1) * ElixirUnit <= max_elixir * r
                      THEN current_elixir' * r = (now2 - now1) * ElixirUnit
                      ELSE current_elixir' = max_elixir]_vars

\* the second update came a long wait after the first: the elixir is capped
C19_Witness ==
    /\ last_update_timestamp = <<LongWait * TimeStep>>
    /\ phase = "single"
    /\ current_elixir = max_elixir

-----------------------------------------------------------------------------
(* C20 *)

\* C20, as claimed: from any reachable state and for any cost c, spend(c)
\* followed immediately by spend(c) leaves the current_elixir of a single
\* spend(2c) (spend changes nothing else).
C20_TwoSpendsAreOneSpend ==
    \A c \in Costs :
        after_spend(after_spend(current_elixir, c), c) = after_spend(current_elixir, 2 * c)

\* C20, amended: in exact arithmetic spend(c) followed immediately by
\* spend(c) leaves the current_elixir of a single spend(2c), unless
\* current_elixir < c < 0.
C20_TwoSpendsAreOneSpendUnlessNegative ==
    \A c \in Costs :
        ~(current_elixir < c /\ c < 0) =>
            after_spend(after_spend(current_elixir, c), c) = after_spend(current_elixir, 2 * c)

\* an amount that some cost is within, but not twice: the first spend
\* subtracts and the second clamps
C20_Witness ==
    /\ last_update_timestamp # None
    /\ \E c \in Costs :
           /\ 0 < c
           /\ c < current_elixir
           /\ current_elixir < 2 * c

-----------------------------------------------------------------------------
(* C21 *)

\* adjust(d) with d at least the cap leaves the cap, adjust(d) with d at most
\* minus the cap leaves 0, and the same call made again leaves the same value
AdjustSaturates ==
    \A d \in Deltas :
        LET once == after_adjust(current_elixir, d)
            twice == after_adjust(once, d)
        IN  /\ d >= max_elixir => (once = max_elixir /\ twice = once)
            /\ d <= 0 - max_elixir => (once = 0 /\ twice = once)

\* C21, as claimed: from any reachable state, adjust(d) with d >= max_elixir
\* leaves current_elixir exactly max_elixir and adjust(d) with
\* d <= -max_elixir leaves it exactly 0, and repeating the call does not
\* change the value further.
C21_AdjustSaturates == AdjustSaturates

\* C21, amended: the same, from any state with
\* 0 <= current_elixir <= max_elixir.
C21_AdjustSaturatesInRange == ElixirInRange => AdjustSaturates

\* an amount strictly inside the range, from which a huge delta of either
\* sign has to clamp
C21_Witness ==
    /\ 0 < current_elixir
    /\ current_elixir < max_elixir
    /\ last_update_timestamp = <<0>>
    /\ \E d \in Deltas : d >= max_elixir
    /\ \E d \in Deltas : d <= 0 - max_elixir

-----------------------------------------------------------------------------
(* C22 *)

\* C22, as claimed: no ElixirTracker operation has a failure outcome, for
\* every tracker that can be constructed and every argument: no sequence of
\* calls leaves an exception raised.
C22_NoFailureOutcome == raised = None

RatesNonZero ==
    /\ single_seconds_per_elixir # 0
    /\ double_seconds_per_elixir # 0
    /\ triple_seconds_per_elixir # 0

\* C22, amended: on a tracker whose three rates are not 0, no sequence of
\* update_time, spend, adjust and set_* calls leaves an exception raised.
C22_NoFailureWithRatesNonZero == RatesNonZero => raised = None

\* a tracker with rates other than 0 took an update_time with an earlier
\* timestamp in the double phase: it holds a negative amount, and nothing was
\* raised
C22_Witness ==
    /\ RatesNonZero
    /\ raised = None
    /\ phase = "double"
    /\ last_update_timestamp # None
    /\ current_elixir < 0

-----------------------------------------------------------------------------
(* C23 *)

\* the value at a path of keys is there: every value on the way is a dict
\* holding the next key
RECURSIVE Present(_, _)
Present(value, path) ==
    IF path = <<>> THEN TRUE
    ELSE /\ value.type = "object"
         /\ path[1] \in DOMAIN value.items
         /\ Present(value.items[path[1]], Tail(path))

RequiredPaths ==
    {<<"cards">>, <<"game_mechanics">>,
     <<"cards", "cards_by_elixir">>, <<"cards", "evolution_cycles">>,
     <<"game_mechanics", "elixir">>,
     <<"game_mechanics", "elixir", "single_elixir">>,
     <<"game_mechanics", "elixir", "double_elixir">>,
     <<"game_mechanics", "elixir", "triple_elixir">>}

SomeRequiredMissing == \E path \in RequiredPaths : ~Present(config_file[1], path)

\* the construction was attempted
Constructed == loader # None \/ raised # None

\* C23, as claimed: construction raises FileNotFoundError when the file does
\* not exist and ValueError when any required key is missing, and in each
\* failing case no ConfigLoader instance is produced.
C23_FailsFast ==
    Constructed =>
        /\ config_file = None => raised = <<"FileNotFoundError">>
        /\ (config_file # None /\ SomeRequiredMissing) => raised = <<"ValueError">>
        /\ raised # None => loader = None

\* the value at a path that is there
RECURSIVE At(_, _)
At(value, path) ==
    IF path = <<>> THEN value ELSE At(value.items[path[1]], Tail(path))

IsObjectWherePresent(path) ==
    Present(config_file[1], path) => At(config_file[1], path).type = "object"

\* the file holds a dict, and the sections the loader looks into are dicts
\* where they are there
SectionsAreObjects ==
    /\ config_file[1].type = "object"
    /\ IsObjectWherePresent(<<"cards">>)
    /\ IsObjectWherePresent(<<"game_mechanics">>)
    /\ IsObjectWherePresent(<<"game_mechanics", "elixir">>)

\* C23, amended: construction raises FileNotFoundError when the file does
\* not exist; when the file holds a dict whose sections cards, game_mechanics
\* and game_mechanics.elixir are dicts where present, it raises ValueError if
\* any required key is missing and produces the loader if none is; and in
\* every failing case no ConfigLoader instance is produced.
C23_FailsFastOnObjects ==
    Constructed =>
        /\ config_file = None => raised = <<"FileNotFoundError">>
        /\ (config_file # None /\ SectionsAreObjects) =>
               IF SomeRequiredMissing
               THEN raised = <<"ValueError">>
               ELSE raised = None /\ loader = config_file
        /\ raised # None => loader = None

\* a file of dicts that lacks only triple_elixir was rejected
C23_Witness ==
    /\ raised = <<"ValueError">>
    /\ loader = None
    /\ config_file # None
    /\ SectionsAreObjects
    /\ \A path \in RequiredPaths :
           Present(config_file[1], path) <=>
               path # <<"game_mechanics", "elixir", "triple_elixir">>

-----------------------------------------------------------------------------
(* C24 *)

\* C24: every configuration that ConfigLoader accepts supplies all three
\* rates: on a constructed loader get_elixir_timing() returns the single,
\* double and triple seconds-per-elixir without raising, and a configuration
\* lacking any of the three rate values is rejected at construction.
C24_AcceptedConfigSuppliesRates ==
    /\ loader # None =>
           LET result == get_elixir_timing(loader[1])
           IN  /\ result.raised = None
               /\ result.timing # None
    /\ (Constructed /\ config_file # None) =>
           ((\E phase_key \in {"single_elixir", "double_elixir", "triple_elixir"} :
                ~Present(config_file[1],
                         <<"game_mechanics", "elixir", phase_key, "exact_seconds_per_elixir">>))
                => loader = None)

-----------------------------------------------------------------------------
(* C25 *)

-----------------------------------------------------------------------------
(* C26 *)

\* C26: once record_play was given the unknown card (card_name None), in any
\* interleaving with plays of named cards, get_discovered_deck,
\* get_inferred_hand and get_inferred_next_card return normally, and the
\* unknown card counts as one discovered identity next to the named ones.
C26_UnknownCardTolerated ==
    UnknownCard \in NamesPlayed =>
        /\ get_discovered_deck # TypeError
        /\ get_inferred_hand # TypeError
        /\ get_inferred_next_card # TypeError
        /\ UnknownCard \in discovered_cards
        /\ NumDiscovered = Cardinality(NamesPlayed)

-----------------------------------------------------------------------------
(* C27 *)

\* C27: play_history is append-only and discovered_cards only grows: every
\* operation leaves the old play_history as a prefix of the new one, with
\* no entry reordered, rewritten or removed even when timestamps arrive out
\* of order, and the old discovered_cards as a subset of the new one (and so
\* for every earlier and every later state of a run).
C27_AppendOnly ==
    [][/\ Len(play_history') >= Len(play_history)
       /\ SubSeq(play_history', 1, Len(play_history)) = play_history
       /\ discovered_cards \subseteq discovered_cards']_vars

\* three plays whose timestamps decrease from one to the next
C27_Witness ==
    /\ Len(play_history) = 3
    /\ play_history[1].timestamp > play_history[2].timestamp
    /\ play_history[2].timestamp > play_history[3].timestamp
    /\ NumDiscovered = 3

-----------------------------------------------------------------------------
(* C28 *)

\* the timestamps recorded for a card
RecordedTimes(card) ==
    {play_history[i].timestamp :
        i \in {j \in 1..Len(play_history) : play_history[j].card_name = card}}

TimesNonDecreasing ==
    \A i \in 1..(Len(play_history) - 1) :
        play_history[i].timestamp <= play_history[i + 1].timestamp

\* C28: the last-played timestamp that get_inferred_hand and
\* get_inferred_next_card rank a card by is the timestamp of the card's
\* latest entry in play_history (last write wins); it is the card's largest
\* recorded timestamp whenever the timestamps were recorded in
\* non-decreasing order.
C28_LastWriteWins ==
    LET used == recency_key(last_play_time_of(play_history))
    IN  \A card \in discovered_cards :
            /\ used[card] = LastPlayed(card)
            /\ TimesNonDecreasing =>
                   \A t \in RecordedTimes(card) : t <= used[card]

\* a card was recorded twice, the second time with the smaller timestamp:
\* the timestamp in use is not the largest one
C28_Witness ==
    /\ Len(play_history) = 3
    /\ play_history[1].card_name = play_history[3].card_name
    /\ play_history[1].timestamp > play_history[3].timestamp
    /\ LET card == play_history[3].card_name
       IN  /\ recency_key(last_play_time_of(play_history))[card] = play_history[3].timestamp
           /\ \E t \in RecordedTimes(card) : t > play_history[3].timestamp

-----------------------------------------------------------------------------
(* C29 *)

\* C29, as claimed: update_time(now) with now earlier than
\* last_update_timestamp subtracts (last_update_timestamp - now) / rate(phase)
\* from current_elixir and moves last_update_timestamp back to now.
C29_EarlierUpdateSubtracts ==
    [][\A now \in Nows :
           (/\ last_update_timestamp # None
            /\ now < last_update_timestamp[1]
            /\ update_time(now)) =>
               /\ current_elixir' * rate(phase)
                      = current_elixir * rate(phase)
                            - (last_update_timestamp[1] - now) * ElixirUnit
               /\ last_update_timestamp' = <<now>>]_vars

\* C29, amended: update_time(now) with now earlier than
\* last_update_timestamp sets current_elixir to the smaller of max_elixir and
\* current_elixir - (last_update_timestamp - now) / rate(phase), with no clamp
\* at 0, and moves last_update_timestamp back to now; it subtracts exactly
\* that amount whenever current_elixir <= max_elixir.
C29_EarlierUpdateSubtractsBelowCap ==
    [][\A now \in Nows :
           (/\ last_update_timestamp # None
            /\ now < last_update_timestamp[1]
            /\ update_time(now)) =>
               LET scaled_difference ==
                       current_elixir * rate(phase)
                           - (last_update_timestamp[1] - now) * ElixirUnit
               IN  /\ IF scaled_difference <= max_elixir * rate(phase)
                      THEN current_elixir' * rate(phase) = scaled_difference
                      ELSE current_elixir' = max_elixir
                   /\ current_elixir <= max_elixir =>
                          current_elixir' * rate(phase) = scaled_difference
                   /\ last_update_timestamp' = <<now>>]_vars

\* the clock was moved back to 0 and the amount is negative
C29_Witness ==
    /\ last_update_timestamp = <<0>>
    /\ current_elixir < 0
    /\ raised = None

-----------------------------------------------------------------------------
(* C30 *)

-----------------------------------------------------------------------------
(* C31 *)

\* an update_time call with a timestamp earlier than the last one
EarlierUpdate ==
    \E now \in Nows :
        /\ last_update_timestamp # None
        /\ now < last_update_timestamp[1]
        /\ update_time(now)

\* a spend of a positive cost, or an adjust by a negative delta
SpendOrNegativeAdjust ==
    \/ \E cost \in Costs : cost > 0 /\ spend(cost)
    \/ \E delta \in Deltas : delta < 0 /\ adjust(delta)

\* C31: once current_elixir equals max_elixir, every update_time call whose
\* timestamp is not earlier than the last one, in any phase, leaves it equal
\* to max_elixir; while timestamps do not decrease, a step that takes it
\* below max_elixir is a spend or an adjust by a negative delta.
C31_ElixirLeak ==
    [][current_elixir = max_elixir =>
           /\ \A now \in Nows :
                  (/\ last_update_timestamp # None => now >= last_update_timestamp[1]
                   /\ update_time(now)) => current_elixir' = max_elixir
           /\ (current_elixir' < max_elixir /\ ~EarlierUpdate) => SpendOrNegativeAdjust]_vars

\* the tracker is at the cap in the triple phase at the latest clock reading
C31_Witness ==
    /\ current_elixir = max_elixir
    /\ phase = "triple"
    /\ last_update_timestamp = <<LongWait * TimeStep>>
    /\ raised = None

-----------------------------------------------------------------------------
(* C32 *)

\* the tracker as it is
ThisTracker == Tracker(current_elixir, last_update_timestamp)

\* C32, as claimed: with the baseline set at t0 and the phase unchanged, for
\* any t0 <= t1 <= t2, update_time(t1) followed by update_time(t2) leaves the
\* same current_elixir and last_update_timestamp as update_time(t2) alone.
C32_TwoUpdatesAreOne ==
    last_update_timestamp # None =>
        \A t1 \in FloatNows : \A t2 \in FloatNows :
            (last_update_timestamp[1] <= t1 /\ t1 <= t2) =>
                after_update_time(after_update_time(ThisTracker, t1), t2)
                    = after_update_time(ThisTracker, t2)

\* C32, amended: under the same conditions the two leave the same
\* last_update_timestamp, and current_elixir values that differ by rounding
\* only: by at most 8 * 2^-Precision * (|current_elixir| + (t2 - t0) / rate(phase)),
\* where current_elixir is the amount at t0; and they are equal when t1 = t0
\* or t1 = t2.
C32_TwoUpdatesAreOneUpToRounding ==
    last_update_timestamp # None =>
        \A t1 \in FloatNows : \A t2 \in FloatNows :
            (last_update_timestamp[1] <= t1 /\ t1 <= t2) =>
                LET two == after_update_time(after_update_time(ThisTracker, t1), t2)
                    one == after_update_time(ThisTracker, t2)
                    difference == IF two.current_elixir < one.current_elixir
                                  THEN one.current_elixir - two.current_elixir
                                  ELSE two.current_elixir - one.current_elixir
                    amount == IF current_elixir < 0 THEN 0 - current_elixir
                              ELSE current_elixir
                IN  /\ two.last_update_timestamp = one.last_update_timestamp
                    /\ one.last_update_timestamp = <<t2>>
                    \* difference <= 8 * 2^-Precision * (amount + elapsed / rate),
                    \* times rate(phase) * 2^Precision
                    /\ difference * rate(phase) * (2 ^ Precision)
                           <= 8 * (amount * rate(phase)
                                       + (t2 - last_update_timestamp[1]) * FloatGrid)
                    /\ (t1 = last_update_timestamp[1] \/ t1 = t2) => difference = 0

\* a baseline below two later clock readings, in the double phase, with
\* elixir accrued below the cap
C32_Witness ==
    /\ last_update_timestamp # None
    /\ \E t1 \in FloatNows : \E t2 \in FloatNows :
           /\ last_update_timestamp[1] < t1
           /\ t1 < t2
    /\ phase = "double"
    /\ 0 < current_elixir
    /\ current_elixir < max_elixir

-----------------------------------------------------------------------------
(* C33 *)

\* the latest entry of play_history
LatestPlay == play_history[Len(play_history)]

\* the latest record_play carried a timestamp strictly greater than the
\* last-played timestamp of every other discovered card
LatestPlayIsNewest ==
    /\ play_history # <<>>
    /\ \A other \in discovered_cards \ {LatestPlay.card_name} :
           LastPlayed(other) < LatestPlay.timestamp

\* C33: if at least 5 distinct cards are discovered and the most recent
\* record_play was for card c with a timestamp strictly greater than the
\* last-played timestamp of every other discovered card, then c is not in
\* get_inferred_hand().
C33_JustPlayedNotInHand ==
    (NumDiscovered >= 5 /\ LatestPlayIsNewest) =>
        LatestPlay.card_name \notin Range(get_inferred_hand)

\* a card of the opening was played again, later than every other card
C33_Witness ==
    /\ NumDiscovered >= 5
    /\ LatestPlayIsNewest
    /\ \E i \in 1..(Len(play_history) - 1) :
           play_history[i].card_name = LatestPlay.card_name

-----------------------------------------------------------------------------
(* C34 *)

\* the evolution_cycles section of the loaded file
CyclesSection == config_file[1].items["cards"].items["evolution_cycles"]

\* C34: get_evolution_cycles() returns a fresh copy on every call: the
\* object it returns is none of those returned before and not the loader's
\* own, and its content is the evolution_cycles section of the loaded file,
\* whatever entries were added to, removed from or changed in the mappings
\* returned before; such changes leave the content a later call returns
\* (that of the loader's own dict) equal to the section of the file.
C34_EvolutionCyclesIsFreshCopy ==
    [][/\ get_evolution_cycles =>
              /\ raised' = None =>
                     /\ Len(returned') = Len(returned) + 1
                     /\ returned'[Len(returned')] # LoaderCycles
                     /\ \A i \in 1..Len(returned) :
                            returned'[Len(returned')] # returned[i]
                     /\ heap'[returned'[Len(returned')]] = CyclesSection
              /\ \A i \in 1..Len(returned) : heap'[returned[i]] = heap[returned[i]]
       /\ loader' # None =>
              /\ heap'[LoaderCycles] = CyclesSection
              /\ CyclesSection' = CyclesSection]_vars

\* the first mapping returned was changed, the second one holds the section
\* of the file
C34_Witness ==
    /\ Len(returned) = 2
    /\ heap[returned[1]] # CyclesSection
    /\ heap[returned[2]] = CyclesSection
    /\ CyclesSection # Object(<<>>)

-----------------------------------------------------------------------------
(* C35 *)

\* C35: if every update_time timestamp is >= the previous one, every spend
\* cost is >= 0, the three rates are positive and max_elixir >= 0, then
\* 0 <= current_elixir <= max_elixir in every state reachable by any
\* interleaving of update_time, spend, adjust and set_* calls.
C35_WellFormedInputKeepsBound ==
    (RatesPositive /\ max_elixir >= 0) =>
        (current_elixir >= 0 /\ max_elixir - current_elixir >= 0)

\* elixir accrued over a long wait in the double phase was all taken away
C35_Witness ==
    /\ current_elixir = 0
    /\ last_update_timestamp = <<LongWait * TimeStep>>
    /\ phase = "double"

-----------------------------------------------------------------------------
(* C36 *)

\* C36: in every reachable state get_inferred_hand() contains only
\* discovered cards and no card twice, and when 5 or more cards are
\* discovered the card returned by get_inferred_next_card() has a
\* last-played timestamp >= that of every card in the hand.
C36_HandWithinDeckNextNotOlder ==
    \A hand \in {get_inferred_hand}, next_card \in {get_inferred_next_card} :
        /\ \A i \in 1..Len(hand) :
               /\ hand[i] \in discovered_cards
               /\ \A j \in 1..Len(hand) : hand[i] = hand[j] => i = j
        /\ (NumDiscovered >= 5 /\ next_card # None) =>
               \A newest \in {LastPlayed(next_card[1])} :
                   \A i \in 1..Len(hand) : newest >= LastPlayed(hand[i])

\* six cards are discovered; the next card was last played later than a
\* card of the hand and no later than the sixth card
C36_Witness ==
    /\ NumDiscovered = 6
    /\ get_inferred_next_card # None
    /\ \E i \in 1..Len(get_inferred_hand) :
           LastPlayed(get_inferred_hand[i]) < LastPlayed(get_inferred_next_card[1])
    /\ \E card \in discovered_cards :
           /\ card \notin Range(get_inferred_hand)
           /\ card # get_inferred_next_card[1]

-----------------------------------------------------------------------------
(* C37 *)

\* the play_history of a tracker that was fed the same card names and
\* timestamps with the is_evolved values flags
Reflagged(history, flags) ==
    SubSeq([i \in 1..Len(history) |->
               CardPlay(history[i].card_name, flags[i], history[i].timestamp)],
           1, Len(history))

\* C37: two trackers fed the same sequence of (card_name, timestamp) plays
\* that differ only in the is_evolved values return identical results from
\* get_discovered_deck, get_inferred_hand and get_inferred_next_card after
\* every step: whatever is_evolved values the other tracker was fed, its
\* hand and next card are those of this tracker, and the deck is the
\* ascending list of the names played.
C37_EvolvedFlagIgnored ==
    \A flags \in [1..Len(play_history) -> BOOLEAN] :
        LET twin_history == Reflagged(play_history, flags)
        IN  /\ inferred_hand_from(twin_history) = get_inferred_hand
            /\ inferred_next_card_from(twin_history) = get_inferred_next_card
            /\ IsAscendingListOf(get_discovered_deck,
                                 {twin_history[i].card_name : i \in 1..Len(twin_history)})

\* five cards are discovered, and the play of the next card was reported as
\* evolved
C37_Witness ==
    /\ NumDiscovered = 5
    /\ get_inferred_next_card # None
    /\ \E i \in 1..Len(play_history) :
           /\ play_history[i].is_evolved
           /\ play_history[i].card_name = get_inferred_next_card[1]

-----------------------------------------------------------------------------
(* C38 *)

\* a call of one of the three queries
QueryCall == GetDiscoveredDeck \/ GetInferredHand \/ GetInferredNextCard

\* what a query returns in this state
AnswerNow(query) ==
    CASE query = "get_discovered_deck" -> get_discovered_deck
      [] query = "get_inferred_hand" -> get_inferred_hand
      [] query = "get_inferred_next_card" -> get_inferred_next_card

\* C38: get_discovered_deck, get_inferred_hand and get_inferred_next_card
\* leave discovered_cards and play_history (and the order of the set)
\* unchanged, and however many of them were called since the latest
\* record_play, a query called now returns what it returned then: the calls
\* change neither the state nor the result of a later query.
C38_QueriesAreReadOnly ==
    [][(query_result' # NoAnswer /\ QueryCall) =>
           /\ discovered_cards' = discovered_cards
           /\ play_history' = play_history
           /\ iter_order' = iter_order
           /\ \A query \in Queries :
                  query_result[query] # None => query_result[query] = <<AnswerNow(query)>>]_vars

\* all three queries were called after a fifth card was played earlier than
\* the card played before it, and there is a next card
C38_Witness ==
    /\ \A query \in Queries : query_result[query] # None
    /\ query_result["get_inferred_next_card"] # <<None>>
    /\ Len(play_history) = OpeningCards + 1
    /\ play_history[OpeningCards + 1].timestamp < play_history[OpeningCards].timestamp

=============================================================================
